---- MODULE Spec2Model ----
(***************************************************************************)
(* HAR capture pipeline of main.go: the driver's event callback spawns one *)
(* producer goroutine per request-sent / response-received event, each     *)
(* producer sends one record on the unbuffered channel harCh, the callback *)
(* closes harCh on the InteractiveTime lifecycle event, and main drains    *)
(* harCh into the HAR log, serialises it and writes it.                    *)
(*                                                                         *)
(* Text is a sequence of tokens, so that "page_" + id is a concatenation.  *)
(***************************************************************************)
EXTENDS Integers, Sequences, FiniteSets, TLC

\* Bound on the number of events the driver delivers in one run.
MaxEvents == 4

\* Bound on the number of requests in the runs that explore header mappings.
MaxHeaderRequests == 2

VARIABLES
    delivered,   \* history: the events the driver has handed to the callback, in order
    producers,   \* the goroutines spawned by the callback: [ev, rec, pc]
    closed,      \* harCh has been closed
    panic,       \* "none", or the runtime panic that killed the process
    mainpc,      \* position of main: navigate, drain, marshal, write, exit
    pages,       \* harObject.Log.Pages
    entries,     \* harObject.Log.Entries
    received,    \* history: the producers whose send the drain loop received, in order
    deadline,    \* the 30 s context deadline has elapsed
    harJSON,     \* result of json.MarshalIndent, <<>> before
    artifact,    \* content of output.har, <<>> while not written
    logged       \* messages written through logger

vars == <<delivered, producers, closed, panic, mainpc, pages, entries,
          received, deadline, harJSON, artifact, logged>>

----------------------------------------------------------------------------
\* Values of the cdproto types

ResourceTypeDocument == "Document"

NoRequest == [Method |-> "", URL |-> "", Headers |-> <<>>]

\* har.Page{} and har.Entry{}: every field has its zero value.
EmptyPage ==
    [kind |-> "Page", ID |-> <<>>, Pageref |-> <<>>, StartedDateTime |-> <<>>,
     Title |-> "", Request |-> NoRequest]

EmptyEntry ==
    [kind |-> "Entry", ID |-> <<>>, Pageref |-> <<>>, StartedDateTime |-> <<>>,
     Title |-> "", Request |-> NoRequest]

\* A header value is dynamically typed: a string, a []string, or any other
\* value (here a []interface{} of strings, which is what a decoded JSON list is).
StringValue(s) == [type |-> "string", elems |-> <<s>>]
StringsValue(ss) == [type |-> "[]string", elems |-> ss]
IfacesValue(ss) == [type |-> "[]interface{}", elems |-> ss]

\* The requests the page may issue: resource type, method, URL, headers, wall time.
RequestInputs ==
    { [Type |-> "Document", Method |-> "GET", URL |-> "https://google.com/",
       Headers |-> [n \in {"User-Agent"} |-> StringValue("chrome")],
       WallTime |-> 1],
      [Type |-> "Image", Method |-> "GET", URL |-> "https://google.com/logo.png",
       Headers |-> [n \in {"Accept"} |-> StringsValue(<<"image/png", "image/*">>)],
       WallTime |-> 2],
      [Type |-> "Script", Method |-> "POST", URL |-> "https://google.com/gen_204",
       Headers |-> [n \in {"Accept"} |-> IfacesValue(<<"a", "b">>)],
       WallTime |-> 3] }

LifecycleNames == {"InteractiveTime", "load"}

\* Header mappings: every mapping of up to two names to a string, a []string
\* of zero to two values, or a []interface{} of two values.
HeaderNames == {"Accept", "Set-Cookie"}

HeaderValues ==
    { StringValue("a"), StringsValue(<<>>), StringsValue(<<"a">>),
      StringsValue(<<"a", "b">>), StringsValue(<<"b", "a">>), IfacesValue(<<"a", "b">>) }

HeaderMappings == UNION {[ks -> HeaderValues] : ks \in SUBSET HeaderNames}

\* Sub-resource requests carrying each of the header mappings.
HeaderRequestInputs ==
    { [Type |-> "Script", Method |-> "GET", URL |-> "https://google.com/gen_204",
       Headers |-> h, WallTime |-> 3] : h \in HeaderMappings }

\* Request identifiers are unique per request.
RequestIDDigits == <<"1", "2", "3", "4", "5", "6", "7", "8">>
RequestID(n) == <<"1000.", RequestIDDigits[n]>>

----------------------------------------------------------------------------
\* headersToHAR

\* fmt.Sprint of a header value that is not a []string.
Sprint(value) ==
    IF value.type = "string"
    THEN value.elems
    ELSE LET n == Len(value.elems)
         IN  <<"[">> \o
             [i \in 1..(IF n = 0 THEN 0 ELSE 2 * n - 1) |->
                 IF i % 2 = 1 THEN value.elems[(i + 1) \div 2] ELSE " "] \o
             <<"]">>

\* The pairs appended for one header of the mapping.
PairsOf(name, value) ==
    IF value.type = "[]string"
    THEN [i \in 1..Len(value.elems) |-> [Name |-> name, Value |-> <<value.elems[i]>>]]
    ELSE <<[Name |-> name, Value |-> Sprint(value)]>>

\* The orders in which a range over the map may visit its keys.
KeyOrders(headers) ==
    LET keys == DOMAIN headers
    IN  { o \in [1..Cardinality(keys) -> keys] :
            \A i, j \in 1..Cardinality(keys) : o[i] = o[j] => i = j }

RECURSIVE headersToHARFrom(_, _, _)
headersToHARFrom(headers, order, i) ==
    IF i > Len(order)
    THEN <<>>
    ELSE PairsOf(order[i], headers[order[i]]) \o headersToHARFrom(headers, order, i + 1)

headersToHAR(headers, order) == headersToHARFrom(headers, order, 1)

----------------------------------------------------------------------------
\* processRequest and processResponse: the record the goroutine sends

\* ev.WallTime.Time().Format(time.RFC3339Nano)
FormatRFC3339Nano(t) == <<"RFC3339Nano", t>>

\* processRequest with the "page_" prefix left out of an entry's pageref.
processRequest_NoPrefix(ev, order) ==
    IF ev.Type = ResourceTypeDocument
    THEN [kind |-> "Page",
          ID |-> <<"page_">> \o ev.RequestID,
          Pageref |-> <<>>,
          StartedDateTime |-> FormatRFC3339Nano(ev.WallTime),
          Title |-> ev.Request.URL,
          Request |-> NoRequest]
    ELSE [kind |-> "Entry",
          ID |-> <<>>,
          Pageref |-> ev.RequestID,
          StartedDateTime |-> FormatRFC3339Nano(ev.WallTime),
          Title |-> "",
          Request |-> [Method |-> ev.Request.Method,
                       URL |-> ev.Request.URL,
                       Headers |-> headersToHAR(ev.Request.Headers, order)]]

processRequest(ev, order) ==
    IF ev.Type = ResourceTypeDocument
    THEN [kind |-> "Page",
          ID |-> <<"page_">> \o ev.RequestID,
          Pageref |-> <<>>,
          StartedDateTime |-> FormatRFC3339Nano(ev.WallTime),
          Title |-> ev.Request.URL,
          Request |-> NoRequest]
    ELSE [kind |-> "Entry",
          ID |-> <<>>,
          Pageref |-> <<"page_">> \o ev.RequestID,
          StartedDateTime |-> FormatRFC3339Nano(ev.WallTime),
          Title |-> "",
          Request |-> [Method |-> ev.Request.Method,
                       URL |-> ev.Request.URL,
                       Headers |-> headersToHAR(ev.Request.Headers, order)]]

processResponse(ev) ==
    IF ev.Type = ResourceTypeDocument THEN EmptyPage ELSE EmptyEntry

----------------------------------------------------------------------------
\* The driver's events

RequestWillBeSent(n, inp) ==
    [kind |-> "RequestWillBeSent", RequestID |-> RequestID(n), Type |-> inp.Type,
     WallTime |-> inp.WallTime, Name |-> "",
     Request |-> [Method |-> inp.Method, URL |-> inp.URL, Headers |-> inp.Headers]]

ResponseReceived(req) ==
    [kind |-> "ResponseReceived", RequestID |-> req.RequestID, Type |-> req.Type,
     WallTime |-> 0, Name |-> "", Request |-> NoRequest]

LifecycleEvent(name) ==
    [kind |-> "LifecycleEvent", RequestID |-> <<>>, Type |-> "",
     WallTime |-> 0, Name |-> name, Request |-> NoRequest]

EventsOfKind(k) == {i \in 1..Len(delivered) : delivered[i].kind = k}

\* The process is alive: no goroutine has panicked and main has not returned.
Running == panic = "none" /\ mainpc # "exit"

\* The driver dispatches events while its context is live.
Dispatching == Running /\ ~deadline /\ Len(delivered) < MaxEvents

----------------------------------------------------------------------------
Init ==
    /\ delivered = <<>>
    /\ producers = <<>>
    /\ closed = FALSE
    /\ panic = "none"
    /\ mainpc = "navigate"
    /\ pages = <<>>
    /\ entries = <<>>
    /\ received = <<>>
    /\ deadline = FALSE
    /\ harJSON = <<>>
    /\ artifact = <<>>
    /\ logged = <<>>

\* go processRequest(ev, harCh) / go processResponse(ev, harCh): the new
\* goroutine holds its record and blocks in the send on harCh.
Spawn(rec) ==
    Append(producers, [ev |-> Len(delivered) + 1, rec |-> rec, pc |-> "sending"])

\* The request callback calling processRequest without the go statement: it
\* returns when the drain loop has received the record.
DeliverRequestFrom_Inline(inputs) ==
    /\ Dispatching
    /\ mainpc = "drain"
    /\ ~closed
    /\ \E inp \in inputs :
         LET ev == RequestWillBeSent(Cardinality(EventsOfKind("RequestWillBeSent")) + 1, inp)
         IN  \E order \in KeyOrders(ev.Request.Headers) :
               LET rec == processRequest(ev, order)
               IN  /\ delivered' = Append(delivered, ev)
                   /\ producers' = Append(producers, [ev |-> Len(delivered) + 1,
                                                      rec |-> rec, pc |-> "done"])
                   /\ received' = Append(received, Len(producers) + 1)
                   /\ pages' = IF rec.kind = "Page" THEN Append(pages, rec) ELSE pages
                   /\ entries' = IF rec.kind = "Entry" THEN Append(entries, rec) ELSE entries
    /\ UNCHANGED <<closed, panic, mainpc, deadline, harJSON, artifact, logged>>

\* The callback on *network.EventRequestWillBeSent, for a request among inputs.
DeliverRequestFrom(inputs) ==
    /\ Dispatching
    /\ \E inp \in inputs :
         LET ev == RequestWillBeSent(Cardinality(EventsOfKind("RequestWillBeSent")) + 1, inp)
         IN  \E order \in KeyOrders(ev.Request.Headers) :
               /\ delivered' = Append(delivered, ev)
               /\ producers' = Spawn(processRequest(ev, order))
    /\ UNCHANGED <<closed, panic, mainpc, pages, entries, received, deadline,
                   harJSON, artifact, logged>>

DeliverRequest == DeliverRequestFrom(RequestInputs)

\* The response callback putting its placeholder in the log itself.
DeliverResponse_Direct ==
    /\ Dispatching
    /\ \E i \in EventsOfKind("RequestWillBeSent") :
         /\ \A j \in EventsOfKind("ResponseReceived") :
               delivered[j].RequestID # delivered[i].RequestID
         /\ LET ev == ResponseReceived(delivered[i])
            IN  /\ delivered' = Append(delivered, ev)
                /\ producers' = Spawn(processResponse(ev))
                /\ pages' = IF ev.Type = ResourceTypeDocument
                            THEN Append(pages, EmptyPage) ELSE pages
                /\ entries' = IF ev.Type = ResourceTypeDocument
                              THEN entries ELSE Append(entries, EmptyEntry)
    /\ UNCHANGED <<closed, panic, mainpc, received, deadline, harJSON, artifact, logged>>

\* The callback on *network.EventResponseReceived, for a request already sent.
DeliverResponse ==
    /\ Dispatching
    /\ \E i \in EventsOfKind("RequestWillBeSent") :
         /\ \A j \in EventsOfKind("ResponseReceived") :
               delivered[j].RequestID # delivered[i].RequestID
         /\ LET ev == ResponseReceived(delivered[i])
            IN  /\ delivered' = Append(delivered, ev)
                /\ producers' = Spawn(processResponse(ev))
    /\ UNCHANGED <<closed, panic, mainpc, pages, entries, received, deadline,
                   harJSON, artifact, logged>>

\* The lifecycle callback without its test of the event's name.
DeliverLifecycle_AnyName ==
    /\ Dispatching
    /\ \E name \in LifecycleNames :
         /\ delivered' = Append(delivered, LifecycleEvent(name))
         /\ IF closed
            THEN panic' = "close of closed channel" /\ UNCHANGED closed
            ELSE closed' = TRUE /\ UNCHANGED panic
    /\ UNCHANGED <<producers, mainpc, pages, entries, received, deadline,
                   harJSON, artifact, logged>>

\* The callback on *page.EventLifecycleEvent: close(harCh) on InteractiveTime;
\* closing a closed channel panics.
DeliverLifecycle ==
    /\ Dispatching
    /\ \E name \in LifecycleNames :
         /\ delivered' = Append(delivered, LifecycleEvent(name))
         /\ IF name = "InteractiveTime"
            THEN IF closed
                 THEN panic' = "close of closed channel" /\ UNCHANGED closed
                 ELSE closed' = TRUE /\ UNCHANGED panic
            ELSE UNCHANGED <<closed, panic>>
    /\ UNCHANGED <<producers, mainpc, pages, entries, received, deadline,
                   harJSON, artifact, logged>>

\* chromedp.Run(ctx, chromedp.Navigate(...)) returns nil.
NavigateOk ==
    /\ Running
    /\ mainpc = "navigate"
    /\ ~deadline
    /\ mainpc' = "drain"
    /\ UNCHANGED <<delivered, producers, closed, panic, pages, entries, received,
                   deadline, harJSON, artifact, logged>>

\* The navigation error path without its return.
NavigateErr_NoReturn ==
    /\ Running
    /\ mainpc = "navigate"
    /\ logged' = Append(logged, "error navigating")
    /\ mainpc' = "drain"
    /\ UNCHANGED <<delivered, producers, closed, panic, pages, entries, received,
                   deadline, harJSON, artifact>>

\* chromedp.Run returns an error (navigation failed, or the context is done).
NavigateErr ==
    /\ Running
    /\ mainpc = "navigate"
    /\ logged' = Append(logged, "error navigating")
    /\ mainpc' = "exit"
    /\ UNCHANGED <<delivered, producers, closed, panic, pages, entries, received,
                   deadline, harJSON, artifact>>

\* The drain loop putting a new page in front of the pages.
LogPagesAfter_Prepend(data) ==
    IF data.kind = "Page" THEN <<data>> \o pages ELSE pages

\* The drain loop without its har.Entry case.
LogEntriesAfter_Lost(data) == entries

\* The switch in the body of the drain loop.
LogPagesAfter(data) ==
    IF data.kind = "Page" THEN Append(pages, data) ELSE pages

LogEntriesAfter(data) ==
    IF data.kind = "Entry" THEN Append(entries, data) ELSE entries

\* harCh is unbuffered: the send of producer p completes exactly when the
\* drain loop receives it, and the loop body appends the record.
Receive(p) ==
    /\ Running
    /\ mainpc = "drain"
    /\ ~closed
    /\ producers[p].pc = "sending"
    /\ producers' = [producers EXCEPT ![p].pc = "done"]
    /\ received' = Append(received, p)
    /\ pages' = LogPagesAfter(producers[p].rec)
    /\ entries' = LogEntriesAfter(producers[p].rec)
    /\ UNCHANGED <<delivered, closed, panic, mainpc, deadline, harJSON, artifact, logged>>

\* A send on a closed channel (blocked in it at the close, or started after
\* it) panics, and an unrecovered panic kills the process.
SendOnClosed(p) ==
    /\ Running
    /\ closed
    /\ producers[p].pc = "sending"
    /\ producers' = [producers EXCEPT ![p].pc = "panicked"]
    /\ panic' = "send on closed channel"
    /\ UNCHANGED <<delivered, closed, mainpc, pages, entries, received, deadline,
                   harJSON, artifact, logged>>

\* The drain loop ending although harCh is still open.
DrainEnd_NoClose ==
    /\ Running
    /\ mainpc = "drain"
    /\ mainpc' = "marshal"
    /\ UNCHANGED <<delivered, producers, closed, panic, pages, entries, received,
                   deadline, harJSON, artifact, logged>>

\* The range over harCh ends once the channel is closed.
DrainEnd ==
    /\ Running
    /\ mainpc = "drain"
    /\ closed
    /\ mainpc' = "marshal"
    /\ UNCHANGED <<delivered, producers, closed, panic, pages, entries, received,
                   deadline, harJSON, artifact, logged>>

\* json.MarshalIndent(harObject, "", "  ")
MarshalOk ==
    /\ Running
    /\ mainpc = "marshal"
    /\ harJSON' = <<[pages |-> pages, entries |-> entries]>>
    /\ mainpc' = "write"
    /\ UNCHANGED <<delivered, producers, closed, panic, pages, entries, received,
                   deadline, artifact, logged>>

MarshalErr ==
    /\ Running
    /\ mainpc = "marshal"
    /\ logged' = Append(logged, "error marshaling HAR object")
    /\ mainpc' = "exit"
    /\ UNCHANGED <<delivered, producers, closed, panic, pages, entries, received,
                   deadline, harJSON, artifact>>

\* os.WriteFile("output.har", harJSON, 0o644), then the success message.
WriteOk ==
    /\ Running
    /\ mainpc = "write"
    /\ artifact' = harJSON
    /\ logged' = Append(logged, "HAR file generated successfully.")
    /\ mainpc' = "exit"
    /\ UNCHANGED <<delivered, producers, closed, panic, pages, entries, received,
                   deadline, harJSON>>

\* The write error path without its return.
WriteErr_NoReturn ==
    /\ Running
    /\ mainpc = "write"
    /\ logged' = logged \o <<"error writing HAR file", "HAR file generated successfully.">>
    /\ mainpc' = "exit"
    /\ UNCHANGED <<delivered, producers, closed, panic, pages, entries, received,
                   deadline, harJSON, artifact>>

WriteErr ==
    /\ Running
    /\ mainpc = "write"
    /\ logged' = Append(logged, "error writing HAR file")
    /\ mainpc' = "exit"
    /\ UNCHANGED <<delivered, producers, closed, panic, pages, entries, received,
                   deadline, harJSON, artifact>>

\* The context's 30 s deadline elapses: the driver stops dispatching events.
Timeout ==
    /\ Running
    /\ ~deadline
    /\ deadline' = TRUE
    /\ UNCHANGED <<delivered, producers, closed, panic, mainpc, pages, entries,
                   received, harJSON, artifact, logged>>

Next ==
    \/ DeliverRequest
    \/ DeliverResponse
    \/ DeliverLifecycle
    \/ NavigateOk
    \/ NavigateErr
    \/ \E p \in 1..Len(producers) : Receive(p)
    \/ \E p \in 1..Len(producers) : SendOnClosed(p)
    \/ DrainEnd
    \/ MarshalOk
    \/ MarshalErr
    \/ WriteOk
    \/ WriteErr
    \/ Timeout

Spec == Init /\ [][Next]_vars

\* Runs in which the page issues requests over all the header mappings, to
\* explore headersToHAR as processRequest calls it.
DeliverHeaderRequest ==
    /\ Len(delivered) < MaxHeaderRequests
    /\ DeliverRequestFrom(HeaderRequestInputs)

HeaderSpec == Init /\ [][DeliverHeaderRequest]_vars

\* The Go scheduler runs every goroutine that can take a step: main goes on
\* when its call returns or its receive can complete, and a producer whose
\* send can complete or panic does so.
Fairness ==
    /\ WF_vars(NavigateOk \/ NavigateErr)
    /\ WF_vars(\E p \in 1..Len(producers) : Receive(p))
    /\ WF_vars(\E p \in 1..Len(producers) : SendOnClosed(p))
    /\ WF_vars(DrainEnd)
    /\ WF_vars(MarshalOk \/ MarshalErr)
    /\ WF_vars(WriteOk \/ WriteErr)

FairSpec == Spec /\ Fairness

----------------------------------------------------------------------------
\* Vocabulary of the properties

Producers == 1..Len(producers)

Pending == {p \in Producers : producers[p].pc = "sending"}

\* The producers whose send the intake accepted.
AcceptedSends == {p \in Producers : producers[p].pc = "done"}

InteractiveDelivered ==
    \E i \in EventsOfKind("LifecycleEvent") : delivered[i].Name = "InteractiveTime"

DocumentRequests ==
    {i \in EventsOfKind("RequestWillBeSent") : delivered[i].Type = "Document"}

SubResourceRequests ==
    {i \in EventsOfKind("RequestWillBeSent") : delivered[i].Type # "Document"}

\* The drain loop has ended.
Drained == mainpc \in {"marshal", "write"} \/ (mainpc = "exit" /\ closed /\ logged # <<"error navigating">>)

LogRecords == pages \o entries

Occurrences(seq, r) == Cardinality({i \in 1..Len(seq) : seq[i] = r})

\* The records of one kind, in the order the drain loop received them.
ReceivedOfKind(k) ==
    LET ps == SelectSeq(received, LAMBDA p : producers[p].rec.kind = k)
    IN  [i \in 1..Len(ps) |-> producers[ps[i]].rec]

----------------------------------------------------------------------------
\* C1: once harCh is closed, no producer goroutine is sending or waiting to
\* send on it.
C1_NoProducerPendingOnceClosed == closed => Pending = {}

\* C2: harCh is never closed a second time, however many InteractiveTime
\* events the driver delivers.
C2_ClosedAtMostOnce == panic # "close of closed channel"

\* C3: when the deadline has elapsed and no InteractiveTime event was
\* delivered, the run is never stuck (it can take a step until main has
\* returned), it ends with a reported error, and it writes no artifact.
C3_DeadlineEndsWithReportedError ==
    (deadline /\ ~InteractiveDelivered) =>
        /\ mainpc # "exit" => ENABLED Next
        /\ mainpc = "exit" => logged # <<>>
        /\ artifact = <<>>

\* C4: once the drain loop has ended, the log holds as many records as sends
\* were accepted, and each accepted record occurs in the log as many times as
\* it was accepted (none lost, none duplicated).
C4_LogHoldsAcceptedSendsExactlyOnce ==
    Drained =>
        /\ Len(pages) + Len(entries) = Cardinality(AcceptedSends)
        /\ \A p \in AcceptedSends :
              Occurrences(LogRecords, producers[p].rec) =
                  Cardinality({q \in AcceptedSends : producers[q].rec = producers[p].rec})

\* C4 witness: the loop has ended with a page and an entry accepted and one
\* more producer whose send was not accepted.
C4_Witness ==
    /\ Drained
    /\ Len(pages) >= 1
    /\ Len(entries) >= 1
    /\ Pending # {}

\* C5: a send on harCh after the close is dropped without an error: it never
\* panics, and its record is not in the log.
C5_SendAfterCloseIsDropped ==
    /\ panic # "send on closed channel"
    /\ \A p \in Producers : producers[p].pc = "panicked" => p \notin AcceptedSends

\* C6: the log never holds an empty har.Page{} or har.Entry{}, and it holds
\* no more records than request-sent events were delivered.
C6_NoEmptyPlaceholderInLog ==
    /\ \A i \in 1..Len(pages) : pages[i] # EmptyPage
    /\ \A i \in 1..Len(entries) : entries[i] # EmptyEntry
    /\ Len(pages) <= Cardinality(DocumentRequests)
    /\ Len(entries) <= Cardinality(SubResourceRequests)

\* One Document request and two sub-resource requests, then InteractiveTime,
\* and nothing else.
OneDocumentTwoSubResources ==
    /\ Len(delivered) = 4
    /\ \A i \in 1..3 : delivered[i].kind = "RequestWillBeSent"
    /\ Cardinality(DocumentRequests) = 1
    /\ delivered[4].kind = "LifecycleEvent"
    /\ delivered[4].Name = "InteractiveTime"

\* C7: a page load of one Document request and two sub-resource requests
\* before InteractiveTime ends the drain loop with 1 page and 2 entries, and
\* without a panic.
C7_OnePageTwoEntries ==
    OneDocumentTwoSubResources =>
        /\ panic = "none"
        /\ Drained => Len(pages) = 1 /\ Len(entries) = 2

\* C8: every request-sent event has exactly one producer, whose record is a
\* page with id "page_" + request id and the URL as title for a Document,
\* and otherwise an entry with pageref "page_" + request id and the
\* request's method and URL.
C8_ProcessRequestOffersOneRecord ==
    \A i \in EventsOfKind("RequestWillBeSent") :
        /\ Cardinality({p \in Producers : producers[p].ev = i}) = 1
        /\ \A p \in Producers :
              producers[p].ev = i =>
                  LET ev == delivered[i]
                      rec == producers[p].rec
                  IN  IF ev.Type = "Document"
                      THEN /\ rec.kind = "Page"
                           /\ rec.ID = <<"page_">> \o ev.RequestID
                           /\ rec.Title = ev.Request.URL
                      ELSE /\ rec.kind = "Entry"
                           /\ rec.Pageref = <<"page_">> \o ev.RequestID
                           /\ rec.Request.Method = ev.Request.Method
                           /\ rec.Request.URL = ev.Request.URL

\* C8 witness: a Document request and two sub-resource requests of different
\* types have each been handed to a producer.
C8_Witness ==
    /\ DocumentRequests # {}
    /\ \E i, j \in SubResourceRequests : delivered[i].Type # delivered[j].Type
    /\ \A i \in EventsOfKind("RequestWillBeSent") : \E p \in Producers : producers[p].ev = i

\* C9: in a run with a single navigation (at most one Document request),
\* the log holds at most one page.
C9_AtMostOnePage == Cardinality(DocumentRequests) <= 1 => Len(pages) <= 1

\* C10: the pages and the entries are each in the order in which the drain
\* loop received them.
C10_LogInReceiveOrder ==
    /\ pages = ReceivedOfKind("Page")
    /\ entries = ReceivedOfKind("Entry")

\* C10 witness: two different pages and two different entries were received.
C10_Witness ==
    /\ Len(pages) >= 2
    /\ pages[1] # pages[2]
    /\ Len(entries) >= 2
    /\ entries[1] # entries[2]

----------------------------------------------------------------------------
\* C11: only the drain loop's receive changes the pages and the entries of
\* the log: every other step (the callback's, a producer's panic, main's
\* other steps, the deadline) leaves both unchanged.
C11_OnlyDrainLoopChangesLog ==
    [][(pages' # pages \/ entries' # entries) => \E p \in Producers : Receive(p)]_vars

\* C11 witness: the log is not empty, the callback has since closed harCh
\* and a producer is still in its send.
C11_Witness ==
    /\ LogRecords # <<>>
    /\ closed
    /\ Pending # {}

\* C12: once the navigation warning is logged, main has returned with that
\* warning as its only message, nothing was serialised or written, and no
\* producer's record was received or is in the log.
C12_NavigationErrorWritesNothing ==
    (\E i \in 1..Len(logged) : logged[i] = "error navigating") =>
        /\ mainpc = "exit"
        /\ logged = <<"error navigating">>
        /\ harJSON = <<>>
        /\ artifact = <<>>
        /\ received = <<>>
        /\ LogRecords = <<>>
        /\ AcceptedSends = {}

\* C12 witness: navigation failed while a producer held a record.
C12_Witness ==
    /\ logged = <<"error navigating">>
    /\ Pending # {}

----------------------------------------------------------------------------
\* The values of the pairs named name, in their order in the output.
ValuesFor(out, name) ==
    LET s == SelectSeq(out, LAMBDA pr : pr.Name = name)
    IN  [i \in 1..Len(s) |-> s[i].Value]

\* One text per value of a header: each element of a list, or the scalar.
OnePerValue(value) ==
    IF value.type = "string"
    THEN <<value.elems>>
    ELSE [i \in 1..Len(value.elems) |-> <<value.elems[i]>>]

\* C13: the pairs headersToHAR returns for a mapping are, for each header,
\* one pair per value of the header in the order of its list (one pair for a
\* scalar), and no pair is named by a name that is not a key of the mapping.
C13_OnePairPerHeaderValue ==
    \A p \in Producers :
        delivered[producers[p].ev].kind = "RequestWillBeSent" /\ producers[p].rec.kind = "Entry" =>
            LET headers == delivered[producers[p].ev].Request.Headers
                out == producers[p].rec.Request.Headers
            IN  /\ \A name \in DOMAIN headers :
                      ValuesFor(out, name) = OnePerValue(headers[name])
                /\ \A i \in 1..Len(out) : out[i].Name \in DOMAIN headers

\* The same for the mappings whose lists are all []string.
C13_OnePairPerStringsValue ==
    \A p \in Producers :
        delivered[producers[p].ev].kind = "RequestWillBeSent" /\ producers[p].rec.kind = "Entry" =>
            LET headers == delivered[producers[p].ev].Request.Headers
                out == producers[p].rec.Request.Headers
            IN  (\A name \in DOMAIN headers : headers[name].type # "[]interface{}") =>
                    /\ \A name \in DOMAIN headers :
                          ValuesFor(out, name) = OnePerValue(headers[name])
                    /\ \A i \in 1..Len(out) : out[i].Name \in DOMAIN headers

----------------------------------------------------------------------------
\* C14: the callback never waits for the drain loop. While the driver
\* dispatches, a request-sent event and a lifecycle event can be delivered
\* whatever main is doing and whatever producers are pending; and the step
\* that delivers an event has no send accepted: for a request-sent or
\* response-received event it only adds one producer, left in its send.
C14_CallbackNeverWaitsForConsumer ==
    /\ [](Dispatching => ENABLED DeliverRequest /\ ENABLED DeliverLifecycle)
    /\ [][Len(delivered') > Len(delivered) =>
            /\ received' = received
            /\ AcceptedSends' = AcceptedSends
            /\ delivered'[Len(delivered')].kind # "LifecycleEvent" =>
                  /\ Len(producers') = Len(producers) + 1
                  /\ producers'[Len(producers')].pc = "sending"
                  /\ \A p \in Producers : producers'[p] = producers[p]]_vars

\* C14 witness: before the drain loop has started, a request-sent event was
\* delivered and, with its producer still pending, the InteractiveTime event.
C14_Witness ==
    /\ mainpc = "navigate"
    /\ Len(delivered) >= 2
    /\ delivered[1].kind = "RequestWillBeSent"
    /\ delivered[Len(delivered)].Name = "InteractiveTime"
    /\ received = <<>>
    /\ Pending # {}

----------------------------------------------------------------------------
\* C15: output.har is written only when harCh is closed and the drain loop
\* has ended, it holds the log as it is, and from the start of the
\* serialisation on no step changes the pages or the entries.
C15_ArtifactAfterDrainAndLogFrozen ==
    /\ [](artifact # <<>> =>
            /\ closed
            /\ Drained
            /\ artifact = <<[pages |-> pages, entries |-> entries]>>)
    /\ [][(mainpc \in {"marshal", "write", "exit"}) =>
            (pages' = pages /\ entries' = entries)]_vars

\* C15 witness: the artifact is written with a log that is not empty.
C15_Witness ==
    /\ artifact # <<>>
    /\ LogRecords # <<>>

\* C16: harCh is closed only by the step that delivers a lifecycle event
\* named InteractiveTime: no other event, no step of main or of a producer
\* and not the deadline changes closed.
C16_ClosedOnlyOnInteractiveTime ==
    /\ [](closed => InteractiveDelivered)
    /\ [][closed' # closed =>
            /\ closed'
            /\ Len(delivered') = Len(delivered) + 1
            /\ delivered'[Len(delivered')].kind = "LifecycleEvent"
            /\ delivered'[Len(delivered')].Name = "InteractiveTime"]_vars

\* C16 witness: harCh is closed after a request-sent event, a
\* response-received event and a lifecycle event of another name, and the
\* navigation has returned.
C16_Witness ==
    /\ closed
    /\ EventsOfKind("RequestWillBeSent") # {}
    /\ EventsOfKind("ResponseReceived") # {}
    /\ \E i \in EventsOfKind("LifecycleEvent") : delivered[i].Name = "load"
    /\ mainpc # "navigate"

----------------------------------------------------------------------------
\* C17: once the deadline has elapsed no pending send is accepted any more
\* and the log no longer changes. (No producer is spawned after the
\* deadline, so the sends pending then are those pending at the deadline.)
C17_PendingSendsLostAtDeadline ==
    [][deadline => (received' = received /\ pages' = pages /\ entries' = entries)]_vars

Logged(msg) == \E i \in 1..Len(logged) : logged[i] = msg

Warnings == {"error navigating", "error marshaling HAR object", "error writing HAR file"}

SuccessMessage == "HAR file generated successfully."

\* C18: a logged warning is the only message of the run and main has
\* returned at it, with no later step taken (nothing drained after a
\* navigation failure, nothing serialised after a marshal failure, nothing
\* written after any of the three); the success message is logged only when
\* the navigation returned, the drain loop ended, and the log was
\* serialised and written.
C18_FatalConditionsEndTheRun ==
    /\ \A w \in Warnings :
          Logged(w) =>
              /\ logged = <<w>>
              /\ mainpc = "exit"
              /\ artifact = <<>>
    /\ Logged("error navigating") => received = <<>> /\ harJSON = <<>>
    /\ Logged("error marshaling HAR object") => Drained /\ harJSON = <<>>
    /\ Logged("error writing HAR file") => Drained /\ harJSON # <<>>
    /\ Logged(SuccessMessage) =>
          /\ logged = <<SuccessMessage>>
          /\ mainpc = "exit"
          /\ Drained
          /\ harJSON = <<[pages |-> pages, entries |-> entries]>>
          /\ artifact = harJSON

\* C18 witness: the write failed after a log that is not empty was serialised.
C18_Witness ==
    /\ Logged("error writing HAR file")
    /\ LogRecords # <<>>

\* C19: while the navigation has not returned, no send has been received,
\* the log is empty and every producer spawned so far is waiting in its send.
C19_NothingReceivedBeforeNavigationReturns ==
    mainpc = "navigate" =>
        /\ received = <<>>
        /\ LogRecords = <<>>
        /\ \A p \in Producers : producers[p].pc = "sending"

\* The part of C19 about the receives alone.
C19_NoReceiveBeforeNavigationReturns ==
    mainpc = "navigate" =>
        /\ received = <<>>
        /\ LogRecords = <<>>
        /\ AcceptedSends = {}

\* The navigation has returned, and harCh was closed by the only
\* InteractiveTime event with every producer spawned so far done.
QuietClose ==
    /\ panic = "none"
    /\ closed
    /\ mainpc \in {"drain", "marshal", "write"}
    /\ \A p \in Producers : producers[p].pc = "done"
    /\ Cardinality({i \in EventsOfKind("LifecycleEvent") :
                       delivered[i].Name = "InteractiveTime"}) = 1

\* Serialisation or the write failed, or a second InteractiveTime event came.
OutsideC20 ==
    \/ Logged("error marshaling HAR object")
    \/ Logged("error writing HAR file")
    \/ Cardinality({i \in EventsOfKind("LifecycleEvent") :
                       delivered[i].Name = "InteractiveTime"}) > 1

\* C20: under fair scheduling, after a close by the only InteractiveTime
\* event with no producer pending and the navigation returned, the drain
\* loop ends, the artifact is written and the success message is logged,
\* unless serialisation or the write fails.
C20_QuietCloseLeadsToSuccess ==
    QuietClose ~> ((Logged(SuccessMessage) /\ artifact # <<>>) \/ OutsideC20)

\* The same when the driver delivers no event after the close.
C20_QuietCloseAndNoLaterEventLeadsToSuccess ==
    (QuietClose /\ ~Dispatching) ~> ((Logged(SuccessMessage) /\ artifact # <<>>) \/ OutsideC20)

====
